---- MODULE Spec2Model ----
(***************************************************************************)
(* Diff-position mapping of the AI code review system.                     *)
(*                                                                         *)
(* The module models the unified-diff scanners of                          *)
(*   backend/services/review_service.py  (parse_diff_for_inline_comments)  *)
(*   backend/services/git_service.py     (_build_position_map_from_patch,  *)
(*        _build_diff_to_source_mapping, map_ai_comments_to_line_numbers)  *)
(* the annotation resolvers built on them, and the comment aggregation of  *)
(* the github_webhook handler in backend/main.py.                          *)
(*                                                                         *)
(* A diff line is kept in the state as its text; Chars gives the text's    *)
(* characters, and every test the code makes on a line (startswith, split, *)
(* the hunk-header regular expression) is computed on those characters.    *)
(***************************************************************************)
EXTENDS Integers, Sequences, FiniteSets, TLC

(***************************************************************************)
(* Bounds of the model.                                                    *)
(***************************************************************************)
\* longest diff text (in lines) scanned by the map builders
MaxDiffLen == 5

\* longest diff text (in lines) of a call whose annotations are resolved
MaxResolveDiffLen == 4

\* longest annotation list handed to a resolver
MaxComments == 2

\* largest `line` an annotation carries
MaxLineRef == 6

\* longest list of resolved annotations handed to the aggregation
MaxAggregated == 3

\* largest diff_position and largest actual_line of a resolved annotation
MaxPosition == 1

MaxActualLine == 2

\* longest hunk (in content lines) of a diff in standard form
MaxHunkLen == 5

\* longest diff text (in lines) of a call that runs beside another
MaxConcurrentLen == 3

\* number of webhook requests handled in a run
MaxRequests == 2

\* length of the comment list given to post_individual_pr_comments
MaxPosted == 3

\* lines of the full diff given to map_ai_diff_lines_to_github_positions
MaxFullDiffLen == 6

\* annotations given to map_ai_diff_lines_to_github_positions
MaxMapped == 1

(***************************************************************************)
(* Python values.                                                          *)
(***************************************************************************)
\* None, and a value that is not None
None == <<>>

Some(v) == <<v>>

Val(o) == o[1]

\* a str as the sequence of its characters
Chars(str) ==
  CASE str = "diff --git a/f b/f" -> <<"d", "i", "f", "f", " ", "-", "-", "g", "i", "t", " ", "a", "/", "f", " ", "b", "/", "f">>
    [] str = "diff --git a/g b/g" -> <<"d", "i", "f", "f", " ", "-", "-", "g", "i", "t", " ", "a", "/", "g", " ", "b", "/", "g">>
    [] str = "@@ -1,2 +2,3 @@" -> <<"@", "@", " ", "-", "1", ",", "2", " ", "+", "2", ",", "3", " ", "@", "@">>
    [] str = "+x" -> <<"+", "x">>
    [] str = "-x" -> <<"-", "x">>
    [] str = " x" -> <<" ", "x">>
    [] str = "" -> <<>>
    [] str = "\\ No newline at end of file" -> <<"\\", " ", "N", "o", " ", "n", "e", "w", "l", "i", "n", "e", " ", "a", "t", " ", "e", "n", "d", " ", "o", "f", " ", "f", "i", "l", "e">>
    [] str = "--- a/f" -> <<"-", "-", "-", " ", "a", "/", "f">>
    [] str = "+++ b/f" -> <<"+", "+", "+", " ", "b", "/", "f">>
    [] str = "index 1..2" -> <<"i", "n", "d", "e", "x", " ", "1", ".", ".", "2">>
    [] str = "diff --git " -> <<"d", "i", "f", "f", " ", "-", "-", "g", "i", "t", " ">>
    [] str = "@@" -> <<"@", "@">>
    [] str = "+" -> <<"+">>
    [] str = "+++" -> <<"+", "+", "+">>
    [] str = "-" -> <<"-">>
    [] str = "---" -> <<"-", "-", "-">>
    [] str = "\\" -> <<"\\">>
    [] str = "diff" -> <<"d", "i", "f", "f">>
    [] str = "index" -> <<"i", "n", "d", "e", "x">>
    [] str = "b/" -> <<"b", "/">>
    [] str = " " -> <<" ">>
    [] str = "@@ -1,3 +1,5 @@" -> <<"@", "@", " ", "-", "1", ",", "3", " ", "+", "1", ",", "5", " ", "@", "@">>
    [] str = "diff --git a/h i b/h i" -> <<"d", "i", "f", "f", " ", "-", "-", "g", "i", "t", " ", "a", "/", "h", " ", "i", " ", "b", "/", "h", " ", "i">>
    [] str = "diff --git g" -> <<"d", "i", "f", "f", " ", "-", "-", "g", "i", "t", " ", "g">>
    [] str = "@@ -1,2 @@" -> <<"@", "@", " ", "-", "1", ",", "2", " ", "@", "@">>
    [] str = " b/" -> <<" ", "b", "/">>
    [] str = "https://github.com/o/r/pull" -> <<"h", "t", "t", "p", "s", ":", "/", "/", "g", "i", "t", "h", "u", "b", ".", "c", "o", "m", "/", "o", "/", "r", "/", "p", "u", "l", "l">>
    [] str = "https://github.com/o/r/pull/12" -> <<"h", "t", "t", "p", "s", ":", "/", "/", "g", "i", "t", "h", "u", "b", ".", "c", "o", "m", "/", "o", "/", "r", "/", "p", "u", "l", "l", "/", "1", "2">>
    [] str = "https://github.com/o/r/pull/0" -> <<"h", "t", "t", "p", "s", ":", "/", "/", "g", "i", "t", "h", "u", "b", ".", "c", "o", "m", "/", "o", "/", "r", "/", "p", "u", "l", "l", "/", "0">>
    [] str = "https://github.com/o/r/pull/x" -> <<"h", "t", "t", "p", "s", ":", "/", "/", "g", "i", "t", "h", "u", "b", ".", "c", "o", "m", "/", "o", "/", "r", "/", "p", "u", "l", "l", "/", "x">>
    [] str = "https://github.com/o/r/tree/b" -> <<"h", "t", "t", "p", "s", ":", "/", "/", "g", "i", "t", "h", "u", "b", ".", "c", "o", "m", "/", "o", "/", "r", "/", "t", "r", "e", "e", "/", "b">>
    [] str = "https://github.com/o/r/compare/b" -> <<"h", "t", "t", "p", "s", ":", "/", "/", "g", "i", "t", "h", "u", "b", ".", "c", "o", "m", "/", "o", "/", "r", "/", "c", "o", "m", "p", "a", "r", "e", "/", "b">>
    [] str = "o/r/pull/12" -> <<"o", "/", "r", "/", "p", "u", "l", "l", "/", "1", "2">>
    [] str = "https://github.com/" -> <<"h", "t", "t", "p", "s", ":", "/", "/", "g", "i", "t", "h", "u", "b", ".", "c", "o", "m", "/">>
    [] str = "pull" -> <<"p", "u", "l", "l">>
    [] str = "tree" -> <<"t", "r", "e", "e">>

\* str.startswith(prefix), on characters
startswith(line, prefix) ==
  /\ Len(prefix) <= Len(line)
  /\ SubSeq(line, 1, Len(prefix)) = prefix

\* str.split(sep) for a one-character separator
RECURSIVE split(_, _)
split(s, sep) ==
  IF \A j \in DOMAIN s : s[j] # sep
  THEN <<s>>
  ELSE LET j == CHOOSE j \in DOMAIN s :
                   s[j] = sep /\ \A m \in 1..(j - 1) : s[m] # sep
       IN  <<SubSeq(s, 1, j - 1)>> \o split(SubSeq(s, j + 1, Len(s)), sep)

\* the decimal digits and their values
DigitValue(c) ==
  CASE c = "0" -> 0 [] c = "1" -> 1 [] c = "2" -> 2 [] c = "3" -> 3
    [] c = "4" -> 4 [] c = "5" -> 5 [] c = "6" -> 6 [] c = "7" -> 7
    [] c = "8" -> 8 [] c = "9" -> 9

IsDigit(c) == c \in {"0", "1", "2", "3", "4", "5", "6", "7", "8", "9"}

\* int() of the longest run of digits of s that starts at index j
RECURSIVE DigitRun(_, _, _)
DigitRun(s, j, acc) ==
  IF j <= Len(s) /\ IsDigit(s[j])
  THEN DigitRun(s, j + 1, acc * 10 + DigitValue(s[j]))
  ELSE acc

\* re.search(r'\+(\d+)', line): the number after the first '+' that a digit
\* follows, or None
HunkNewStart(line) ==
  LET hits == {j \in 1..(Len(line) - 1) : line[j] = "+" /\ IsDigit(line[j + 1])}
  IN  IF hits = {}
      THEN None
      ELSE LET j == CHOOSE j \in hits : \A m \in hits : j <= m
           IN  Some(DigitRun(line, j + 1, 0))

(***************************************************************************)
(* A Python dict: its entries in insertion order.                          *)
(***************************************************************************)
DictKeys(d) == {d[j].key : j \in DOMAIN d}

DictGet(d, k) == d[CHOOSE j \in DOMAIN d : d[j].key = k].val

DictSet(d, k, v) ==
  IF k \in DictKeys(d)
  THEN [j \in DOMAIN d |-> IF d[j].key = k THEN [key |-> k, val |-> v] ELSE d[j]]
  ELSE Append(d, [key |-> k, val |-> v])

(***************************************************************************)
(* The diff texts of the model: each line is one of these texts.           *)
(***************************************************************************)
Lines ==
  { "diff --git a/f b/f", "diff --git a/g b/g", "@@ -1,2 +2,3 @@",
    "+x", "-x", " x", "", "\\ No newline at end of file",
    "--- a/f", "+++ b/f", "index 1..2" }

VARIABLES
  diff_lines,             \* diff_content.splitlines(), the lines read so far
  current_file,           \* review_service: b/ path of the last file header
  github_position,        \* review_service: position counter of the file
  diff_line_to_position,  \* review_service: diff line -> (file, position)
  patch_map,              \* _build_position_map_from_patch: its locals
  source_map,             \* _build_diff_to_source_mapping: its locals
  absolute_map,           \* map_ai_comments_to_line_numbers: its scan locals
  pc,                     \* where the modelled call stands
  line_comments,          \* the annotations read so far, in input order
  mapped_comments,        \* the resolver's result list
  matched,                \* per result: input index, map key used, fuzzy or not
  comments_by_location,   \* github_webhook: the groups, a dict of lists
  github_comments,        \* github_webhook: the ReviewComment list
  cursor,                 \* github_webhook: groups composed so far
  invocations,            \* concurrent calls: argument read so far, pc, result
  frames,                 \* concurrent calls: the locals of each call
  first_call,             \* repeated call: arguments and results of the first
  webhook,                \* github_webhook: the request being handled
  manual,                 \* review_pr_manually: the request being handled
  posting                 \* post_individual_pr_comments: its locals

vars ==
  << diff_lines, current_file, github_position, diff_line_to_position,
     patch_map, source_map, absolute_map,
     pc, line_comments, mapped_comments, matched,
     comments_by_location, github_comments, cursor,
     invocations, frames, first_call, webhook, manual, posting >>

scan_vars ==
  << diff_lines, current_file, github_position, diff_line_to_position,
     patch_map, source_map, absolute_map >>

resolve_vars == << line_comments, mapped_comments, matched >>

aggregate_vars == << comments_by_location, github_comments, cursor >>

session_vars == << invocations, frames, first_call, webhook, manual, posting >>

(***************************************************************************)
(* review_service.parse_diff_for_inline_comments: the map-building loop.   *)
(***************************************************************************)
\* the b/ side path of a `diff --git` line, or the old value when the line
\* has fewer than 4 space-separated parts
FilePath(line, old) ==
  LET parts == split(line, " ")
  IN  IF Len(parts) >= 4
      THEN LET b_path == parts[4]
           IN  Some(IF startswith(b_path, Chars("b/"))
                    THEN SubSeq(b_path, 3, Len(b_path))
                    ELSE b_path)
      ELSE old

\* diff_line_to_position[diff_line_num] = (current_file, github_position);
\* github_position += 1
RecordPosition(st, diff_line_num) ==
  [st EXCEPT
     !.diff_line_to_position =
        DictSet(@, diff_line_num, <<Val(st.current_file), st.github_position>>),
     !.github_position = @ + 1]

\* one iteration of the loop over enumerate(diff_lines, 1)
ParseDiffLine(st, diff_line_num, line) ==
  IF startswith(line, Chars("diff --git "))
  THEN [st EXCEPT !.current_file = FilePath(line, @), !.github_position = 0]
  ELSE IF startswith(line, Chars("@@"))
  THEN st
  ELSE IF st.current_file # None
  THEN IF startswith(line, Chars("+")) /\ ~startswith(line, Chars("+++"))
       THEN RecordPosition(st, diff_line_num)
       ELSE IF startswith(line, Chars("-")) /\ ~startswith(line, Chars("---"))
       THEN [st EXCEPT !.github_position = @ + 1]
       ELSE IF line # <<>> /\ ~startswith(line, Chars("\\"))
       THEN RecordPosition(st, diff_line_num)
       ELSE st
  ELSE st

(***************************************************************************)
(* git_service._build_position_map_from_patch: one iteration of its loop.  *)
(***************************************************************************)
PositionMapLine(st, line) ==
  LET position == st.position + 1
      tag == IF line # <<>> THEN SubSeq(line, 1, 1) ELSE Chars(" ")
      commentable ==
        [position |-> position,
         new_line |-> Some(Val(st.new_line) + 1),
         mapping  |-> DictSet(st.mapping, Val(st.new_line), position)]
  IN  IF startswith(line, Chars("@@"))
      THEN [st EXCEPT !.position = position, !.new_line = HunkNewStart(line)]
      ELSE IF st.new_line = None
      THEN [st EXCEPT !.position = position]
      ELSE IF tag = Chars("+")
      THEN commentable
      ELSE IF tag = Chars("-")
      THEN [st EXCEPT !.position = position]
      ELSE commentable

(***************************************************************************)
(* git_service._build_diff_to_source_mapping: one iteration of its loop.   *)
(***************************************************************************)
DiffToSourceLine(st, diff_line_num, line) ==
  IF startswith(line, Chars("@@"))
  THEN [st EXCEPT !.current_source_line = HunkNewStart(line)]
  ELSE IF st.current_source_line # None
  THEN IF startswith(line, Chars("+")) /\ ~startswith(line, Chars("+++"))
       THEN [current_source_line |-> Some(Val(st.current_source_line) + 1),
             diff_to_source |->
                DictSet(st.diff_to_source, diff_line_num, Val(st.current_source_line))]
       ELSE IF startswith(line, Chars("-")) /\ ~startswith(line, Chars("---"))
       THEN st
       ELSE IF /\ line # <<>>
               /\ ~startswith(line, Chars("\\"))
               /\ ~startswith(line, Chars("diff"))
               /\ ~startswith(line, Chars("index"))
       THEN [st EXCEPT !.current_source_line = Some(Val(@) + 1)]
       ELSE st
  ELSE st

(***************************************************************************)
(* git_service.map_ai_comments_to_line_numbers: one iteration of its scan. *)
(* current_absolute_line is None while the local is unbound; reading it    *)
(* then raises UnboundLocalError, which ends the call (raised).            *)
(***************************************************************************)
\* `if current_file`: neither None nor the empty string
Truthy(o) == o # None /\ Val(o) # <<>>

AbsoluteLine(st, diff_line_num, line) ==
  IF st.raised
  THEN st
  ELSE IF startswith(line, Chars("diff --git "))
  THEN [st EXCEPT !.current_file = FilePath(line, @)]
  ELSE IF startswith(line, Chars("@@"))
  THEN IF HunkNewStart(line) # None
       THEN [st EXCEPT !.current_absolute_line = HunkNewStart(line)]
       ELSE st
  ELSE IF /\ Truthy(st.current_file)
          /\ startswith(line, Chars("+"))
          /\ ~startswith(line, Chars("+++"))
  THEN IF st.current_absolute_line = None
       THEN [st EXCEPT !.raised = TRUE]
       ELSE [st EXCEPT
               !.diff_to_absolute =
                  DictSet(@, diff_line_num,
                          [file_path |-> Val(st.current_file),
                           absolute_line |-> Val(st.current_absolute_line)]),
               !.current_absolute_line = Some(Val(@) + 1)]
  ELSE IF /\ Truthy(st.current_file)
          /\ ~startswith(line, Chars("-"))
          /\ ~startswith(line, Chars("+++"))
          /\ ~startswith(line, Chars("---"))
  THEN IF st.current_absolute_line # None
       THEN [st EXCEPT !.current_absolute_line = Some(Val(@) + 1)]
       ELSE st
  ELSE st

(***************************************************************************)
(* The state machine of the map builders: each step reads the next line of *)
(* the diff text and runs one loop iteration of every builder on it.       *)
(***************************************************************************)
ReviewScan ==
  [current_file |-> current_file,
   github_position |-> github_position,
   diff_line_to_position |-> diff_line_to_position]

\* the locals parse_diff_for_inline_comments creates at each call
NewLocals ==
  [current_file |-> None, github_position |-> 0, diff_line_to_position |-> <<>>]

\* the locals of one call of each of the four map builders
NewFrame ==
  [review |-> NewLocals,
   patch_map |-> [position |-> 0, new_line |-> None, mapping |-> <<>>],
   source_map |-> [current_source_line |-> None, diff_to_source |-> <<>>],
   absolute_map |-> [current_file |-> None, current_absolute_line |-> None,
                     diff_to_absolute |-> <<>>, raised |-> FALSE]]

\* the calls that run concurrently
Invocations == {1, 2}

\* the handler before a request arrives
IdleWebhook ==
  [pc |-> "idle", request |-> None, verified |-> FALSE, parsed |-> FALSE,
   diff_fetched |-> FALSE, diff_content |-> None, mapped |-> None,
   posted |-> FALSE, calls |-> <<>>, status |-> None, message |-> None,
   responses |-> <<>>]

\* the manual review handler before a request arrives
IdleManual ==
  [pc |-> "idle", request |-> None, url_parts |-> <<>>, url_type |-> None,
   pr_number |-> None, calls |-> <<>>, status |-> None, raised |-> None,
   responses |-> <<>>]

\* post_individual_pr_comments before it is called
IdlePosting ==
  [pc |-> "idle", comments |-> <<>>, i |-> 0, success_count |-> 0,
   requests |-> <<>>, result |-> None]

InitLocals ==
  /\ diff_lines = <<>>
  /\ current_file = None
  /\ github_position = 0
  /\ diff_line_to_position = <<>>
  /\ patch_map = [position |-> 0, new_line |-> None, mapping |-> <<>>]
  /\ source_map = [current_source_line |-> None, diff_to_source |-> <<>>]
  /\ absolute_map = [current_file |-> None, current_absolute_line |-> None,
                     diff_to_absolute |-> <<>>, raised |-> FALSE]
  /\ line_comments = <<>>
  /\ mapped_comments = <<>>
  /\ matched = <<>>
  /\ comments_by_location = <<>>
  /\ github_comments = <<>>
  /\ cursor = 0
  /\ invocations = [i \in Invocations |->
                      [diff_lines |-> <<>>, pc |-> "scan", result |-> None]]
  /\ frames = [i \in Invocations |-> NewFrame]
  /\ first_call = None
  /\ webhook = IdleWebhook
  /\ manual = IdleManual
  /\ posting = IdlePosting

Init == InitLocals /\ pc = "scan"

ScanLine(text) ==
  LET diff_line_num == Len(diff_lines) + 1
      line == Chars(text)
      st == ParseDiffLine(ReviewScan, diff_line_num, line)
  IN  /\ diff_lines' = Append(diff_lines, text)
      /\ current_file' = st.current_file
      /\ github_position' = st.github_position
      /\ diff_line_to_position' = st.diff_line_to_position
      /\ patch_map' = PositionMapLine(patch_map, line)
      /\ source_map' = DiffToSourceLine(source_map, diff_line_num, line)
      /\ absolute_map' = AbsoluteLine(absolute_map, diff_line_num, line)

\* the scan loops read one more line, drawn from `texts`
Read(texts, bound) ==
  /\ pc = "scan"
  /\ Len(diff_lines) < bound
  /\ \E text \in texts : ScanLine(text)
  /\ UNCHANGED << pc, resolve_vars, aggregate_vars, session_vars >>

ReadDiff == Read(Lines, MaxDiffLen)

Next == ReadDiff

Spec == Init /\ [][Next]_vars

(***************************************************************************)
(* The map builders on a single-file diff in standard form: the file       *)
(* header with its index, --- and +++ lines, one hunk header, then the     *)
(* content lines of the hunk.                                              *)
(***************************************************************************)
StandardHeader ==
  << "diff --git a/f b/f", "index 1..2", "--- a/f", "+++ b/f", "@@ -1,3 +1,5 @@" >>

HunkContent == {" x", "+x", "-x"}

ReadStandardDiff ==
  /\ pc = "scan"
  /\ Len(diff_lines) < Len(StandardHeader) + MaxHunkLen
  /\ \E text \in (IF Len(diff_lines) < Len(StandardHeader)
                  THEN {StandardHeader[Len(diff_lines) + 1]}
                  ELSE HunkContent) :
       ScanLine(text)
  /\ UNCHANGED << pc, resolve_vars, aggregate_vars, session_vars >>

NextStandard == ReadStandardDiff

SpecStandard == Init /\ [][NextStandard]_vars

(***************************************************************************)
(* The map builders on diffs with unusual headers: a path with a space, a  *)
(* file header of fewer than 4 space-separated parts, a hunk header        *)
(* without a new-file start.                                               *)
(***************************************************************************)
HeaderLines ==
  { "diff --git a/f b/f", "diff --git a/h i b/h i", "diff --git g",
    "@@ -1,2 +2,3 @@", "@@ -1,2 @@", "+x" }

ReadHeaders == Read(HeaderLines, MaxDiffLen)

NextHeaders == ReadHeaders

SpecHeaders == Init /\ [][NextHeaders]_vars

(***************************************************************************)
(* Concurrent calls of the map builders: each call reads its own diff text *)
(* line by line and keeps its maps and counters in the locals of its own   *)
(* frame (the services are written in __init__ only); the steps of the     *)
(* calls interleave.                                                       *)
(***************************************************************************)
\* the diff texts of the concurrent calls
ConcurrentLines ==
  { "diff --git a/f b/f", "diff --git a/g b/g", "@@ -1,2 +2,3 @@", "+x" }

SharedFrame(i) == 1

\* the frame that holds the locals of call i: its own
Frame(i) == i

\* one loop iteration of every builder on the locals of a frame
ScanFrame(frame, diff_line_num, line) ==
  [review |-> ParseDiffLine(frame.review, diff_line_num, line),
   patch_map |-> PositionMapLine(frame.patch_map, line),
   source_map |-> DiffToSourceLine(frame.source_map, diff_line_num, line),
   absolute_map |-> AbsoluteLine(frame.absolute_map, diff_line_num, line)]

\* call i reads the next line of its diff
ScanStep(i) ==
  /\ invocations[i].pc = "scan"
  /\ Len(invocations[i].diff_lines) < MaxConcurrentLen
  /\ \E text \in ConcurrentLines :
       /\ invocations' = [invocations EXCEPT ![i].diff_lines = Append(@, text)]
       /\ frames' = [frames EXCEPT
                       ![Frame(i)] = ScanFrame(@, Len(invocations[i].diff_lines) + 1,
                                               Chars(text))]
  /\ UNCHANGED << scan_vars, pc, resolve_vars, aggregate_vars, first_call, webhook,
                  manual, posting >>

\* call i returns the maps of its frame
ReturnMaps(i) ==
  /\ invocations[i].pc = "scan"
  /\ invocations' = [invocations EXCEPT
                       ![i].pc = "returned", ![i].result = Some(frames[Frame(i)])]
  /\ UNCHANGED << scan_vars, pc, resolve_vars, aggregate_vars, frames,
                  first_call, webhook, manual, posting >>

NextConcurrent == \E i \in Invocations : ScanStep(i) \/ ReturnMaps(i)

SpecConcurrent == Init /\ [][NextConcurrent]_vars

(***************************************************************************)
(* Annotations (`line_comments`): Python dicts, as functions from keys.    *)
(* The i-th annotation of a list carries i as its severity, issue, impact  *)
(* and fix texts.                                                          *)
(***************************************************************************)
Annotation(i, n) ==
  [line |-> n, severity |-> i, issue |-> i, impact |-> i, fix |-> i]

\* a dict without some of its keys
Without(comment, keys) == [k \in DOMAIN comment \ keys |-> comment[k]]

\* the i-th annotation: any line 1..MaxLineRef, or no `line` key at all
LineComments(i) ==
  {Annotation(i, n) : n \in 1..MaxLineRef}
    \cup {Without(Annotation(i, 1), {"line"})}

\* the same, or one without its `severity` key
LooseComments(i) ==
  LineComments(i)
    \cup {Without(Annotation(i, n), {"severity"}) : n \in 1..MaxLineRef}

\* the diff texts of the calls whose annotations are resolved
ResolveLines == {"diff --git a/f b/f", "@@ -1,2 +2,3 @@", "+x", "-x"}

(***************************************************************************)
(* review_service.parse_diff_for_inline_comments: resolving annotations.   *)
(***************************************************************************)
\* the fallback's window: `distance <= 3`
FuzzyTolerance == 3

Abs(x) == IF x < 0 THEN -x ELSE x

CloserMatchWide(distance, best_distance) ==
  /\ distance <= FuzzyTolerance + 1
  /\ (best_distance = None \/ distance < Val(best_distance))

CloserMatchNarrow(distance, best_distance) ==
  /\ distance < FuzzyTolerance
  /\ (best_distance = None \/ distance < Val(best_distance))

CloserMatchLast(distance, best_distance) ==
  /\ distance <= FuzzyTolerance
  /\ (best_distance = None \/ distance <= Val(best_distance))

\* `distance <= 3 and distance < best_distance`; best_distance None stands
\* for float('inf')
CloserMatch(distance, best_distance) ==
  /\ distance <= FuzzyTolerance
  /\ (best_distance = None \/ distance < Val(best_distance))

\* the fallback loop over diff_line_to_position.items(), from entry j on;
\* best_match keeps the entry (the code keeps its value only)
RECURSIVE ClosestEntry(_, _, _, _, _)
ClosestEntry(map, ai_diff_line, j, best_match, best_distance) ==
  IF j > Len(map)
  THEN best_match
  ELSE LET distance == Abs(map[j].key - ai_diff_line)
       IN  IF CloserMatch(distance, best_distance)
           THEN ClosestEntry(map, ai_diff_line, j + 1,
                             Some([key |-> map[j].key, val |-> map[j].val,
                                   fuzzy |-> TRUE]),
                             Some(distance))
           ELSE ClosestEntry(map, ai_diff_line, j + 1, best_match, best_distance)

\* the entry an annotation's line resolves to (direct mapping first, then
\* the fallback), or None
MatchedEntry(map, ai_diff_line) ==
  IF ai_diff_line \in DictKeys(map)
  THEN Some([key |-> ai_diff_line, val |-> DictGet(map, ai_diff_line),
             fuzzy |-> FALSE])
  ELSE ClosestEntry(map, ai_diff_line, 1, None, None)

\* {**comment, 'file_path': file_path, 'diff_position': github_pos}
WithLocation(comment, location) ==
  [k \in DOMAIN comment \cup {"file_path", "diff_position"} |->
     IF k = "file_path" THEN location[1]
     ELSE IF k = "diff_position" THEN location[2]
     ELSE comment[k]]

InitResolve == InitLocals /\ pc = "call"

\* `if not diff_content or not line_comments: return []`
ReturnEmpty ==
  /\ pc = "call"
  /\ pc' = "returned"
  /\ \E first \in {<<>>} \cup {<<c>> : c \in LineComments(1)} :
       line_comments' = first
  /\ UNCHANGED << scan_vars, mapped_comments, matched, aggregate_vars, session_vars >>

\* both arguments are non-empty: the map-building loop starts
EnterScan ==
  /\ pc = "call"
  /\ pc' = "scan"
  /\ UNCHANGED << scan_vars, resolve_vars, aggregate_vars, session_vars >>

ReadShortDiff == Read(ResolveLines, MaxResolveDiffLen)

\* the last line of the (non-empty) diff was read
EndScan ==
  /\ pc = "scan"
  /\ diff_lines # <<>>
  /\ pc' = "resolve"
  /\ UNCHANGED << scan_vars, resolve_vars, aggregate_vars, session_vars >>

\* one iteration of the loop over line_comments; comment['line'] raises
\* KeyError when the key is missing
ResolveComment(comment) ==
  /\ pc = "resolve"
  /\ line_comments' = Append(line_comments, comment)
  /\ IF "line" \notin DOMAIN comment
     THEN /\ pc' = "raised"
          /\ UNCHANGED << mapped_comments, matched >>
     ELSE LET e == MatchedEntry(diff_line_to_position, comment.line)
          IN  /\ pc' = pc
              /\ mapped_comments' =
                   IF e = None THEN mapped_comments
                   ELSE Append(mapped_comments, WithLocation(comment, Val(e).val))
              /\ matched' =
                   IF e = None THEN matched
                   ELSE Append(matched, [index |-> Len(line_comments) + 1,
                                         key |-> Val(e).key,
                                         fuzzy |-> Val(e).fuzzy])
  /\ UNCHANGED << scan_vars, aggregate_vars, session_vars >>

ResolveNext ==
  /\ Len(line_comments) < MaxComments
  /\ \E comment \in LineComments(Len(line_comments) + 1) : ResolveComment(comment)

\* `return mapped_comments`, after the last of the (non-empty) list
Return ==
  /\ pc = "resolve"
  /\ line_comments # <<>>
  /\ pc' = "returned"
  /\ UNCHANGED << scan_vars, resolve_vars, aggregate_vars, session_vars >>

NextResolve ==
  \/ ReturnEmpty
  \/ EnterScan
  \/ ReadShortDiff
  \/ EndScan
  \/ ResolveNext
  \/ Return

SpecResolve == InitResolve /\ [][NextResolve]_vars

\* the same call on diff texts of two files
SectionLines == {"diff --git a/f b/f", "diff --git a/g b/g", "+x", "-x"}

ReadSections == Read(SectionLines, MaxResolveDiffLen)

NextSections ==
  \/ EnterScan
  \/ ReadSections
  \/ EndScan
  \/ ResolveNext
  \/ Return

SpecSections == InitResolve /\ [][NextSections]_vars

(***************************************************************************)
(* parse_diff_for_inline_comments called a second time with the arguments  *)
(* of a first call that returned.                                          *)
(***************************************************************************)
CarriedLocals ==
  [current_file |-> current_file, github_position |-> github_position,
   diff_line_to_position |-> diff_line_to_position]

\* the locals the second call starts from: those it creates
EntryLocals == NewLocals

\* the diff texts of the repeated call
RepeatedLines == {"diff --git a/f b/f", "+x", "-x"}

ReadRepeatedDiff == Read(RepeatedLines, MaxResolveDiffLen)

\* the steps of the first call
FirstCall ==
  /\ first_call = None
  /\ (EnterScan \/ ReadRepeatedDiff \/ EndScan \/ ResolveNext \/ Return)

\* the second call is entered with the same diff text and annotation list
CallAgain ==
  /\ pc = "returned"
  /\ first_call = None
  /\ first_call' = Some([diff_lines |-> diff_lines,
                         line_comments |-> line_comments,
                         diff_line_to_position |-> diff_line_to_position,
                         mapped_comments |-> mapped_comments])
  /\ pc' = "scan"
  /\ diff_lines' = <<>>
  /\ current_file' = EntryLocals.current_file
  /\ github_position' = EntryLocals.github_position
  /\ diff_line_to_position' = EntryLocals.diff_line_to_position
  /\ patch_map' = NewFrame.patch_map
  /\ source_map' = NewFrame.source_map
  /\ absolute_map' = NewFrame.absolute_map
  /\ line_comments' = <<>>
  /\ mapped_comments' = <<>>
  /\ matched' = <<>>
  /\ UNCHANGED << aggregate_vars, invocations, frames, webhook, manual, posting >>

\* the second call reads the next line of the same diff text
ReadAgain ==
  /\ first_call # None
  /\ pc = "scan"
  /\ Len(diff_lines) < Len(Val(first_call).diff_lines)
  /\ ScanLine(Val(first_call).diff_lines[Len(diff_lines) + 1])
  /\ UNCHANGED << pc, resolve_vars, aggregate_vars, session_vars >>

EndScanAgain ==
  /\ first_call # None
  /\ Len(diff_lines) = Len(Val(first_call).diff_lines)
  /\ EndScan

\* the second call resolves the next annotation of the same list
ResolveAgain ==
  /\ first_call # None
  /\ Len(line_comments) < Len(Val(first_call).line_comments)
  /\ ResolveComment(Val(first_call).line_comments[Len(line_comments) + 1])

ReturnAgain ==
  /\ first_call # None
  /\ Len(line_comments) = Len(Val(first_call).line_comments)
  /\ Return

NextTwice ==
  \/ FirstCall
  \/ CallAgain
  \/ ReadAgain
  \/ EndScanAgain
  \/ ResolveAgain
  \/ ReturnAgain

SpecTwice == InitResolve /\ [][NextTwice]_vars

(***************************************************************************)
(* git_service.map_ai_comments_to_line_numbers: resolving annotations.     *)
(***************************************************************************)
\* the f-string of a comment body: it reads severity, issue, impact, fix
Body(comment) ==
  << comment.severity, comment.issue, comment.impact, comment.fix >>

BodyKeys == {"severity", "issue", "impact", "fix"}

\* the scan loop ended: by UnboundLocalError, or at the last line
AbsoluteEndScan ==
  /\ pc = "scan"
  /\ pc' = IF absolute_map.raised THEN "raised" ELSE "absolute_resolve"
  /\ UNCHANGED << scan_vars, resolve_vars, aggregate_vars, session_vars >>

\* one iteration of the loop over ai_comments
AbsoluteResolveComment(comment) ==
  /\ pc = "absolute_resolve"
  /\ line_comments' = Append(line_comments, comment)
  /\ IF "line" \notin DOMAIN comment
     THEN pc' = "raised" /\ UNCHANGED mapped_comments
     ELSE IF comment.line \in DictKeys(absolute_map.diff_to_absolute)
     THEN IF BodyKeys \subseteq DOMAIN comment
          THEN LET mapping == DictGet(absolute_map.diff_to_absolute, comment.line)
               IN  /\ pc' = pc
                   /\ mapped_comments' =
                        Append(mapped_comments,
                               [path |-> mapping.file_path,
                                line |-> mapping.absolute_line,
                                body |-> Body(comment)])
          ELSE pc' = "raised" /\ UNCHANGED mapped_comments
     ELSE UNCHANGED << pc, mapped_comments >>
  /\ UNCHANGED << scan_vars, matched, aggregate_vars, session_vars >>

AbsoluteResolveNext ==
  /\ Len(line_comments) < MaxComments
  /\ \E comment \in LooseComments(Len(line_comments) + 1) :
       AbsoluteResolveComment(comment)

AbsoluteReturn ==
  /\ pc = "absolute_resolve"
  /\ pc' = "returned"
  /\ UNCHANGED << scan_vars, resolve_vars, aggregate_vars, session_vars >>

\* the diff texts of the calls of map_ai_comments_to_line_numbers
AbsoluteLines ==
  { "diff --git a/f b/f", "@@ -1,2 +2,3 @@", "+x", "-x", "+++ b/f",
    "\\ No newline at end of file" }

ReadAbsoluteDiff == Read(AbsoluteLines, MaxResolveDiffLen)

NextAbsolute ==
  \/ ReadAbsoluteDiff
  \/ AbsoluteEndScan
  \/ AbsoluteResolveNext
  \/ AbsoluteReturn

SpecAbsolute == Init /\ [][NextAbsolute]_vars

(***************************************************************************)
(* main.github_webhook: the aggregation of the resolved annotations into   *)
(* ReviewComment objects.  An exception ends the handler with status 500   *)
(* (`except Exception`) before anything is posted: pc "failed".            *)
(***************************************************************************)
\* the file paths of the resolved annotations
FilePaths == {<<"f">>, <<"g">>}

\* the i-th resolved annotation handed to the aggregation: an annotation
\* with its location, with or without an `actual_line` key, with or without
\* its `severity` key
ResolvedComments(i) ==
  LET located ==
        {WithLocation(Annotation(i, 1), <<path, position>>) :
           path \in FilePaths, position \in 0..MaxPosition}
      lined ==
        located \cup
          {[k \in DOMAIN c \cup {"actual_line"} |->
              IF k = "actual_line" THEN n ELSE c[k]] :
             c \in located, n \in 1..MaxActualLine}
  IN  lined \cup {Without(c, {"severity"}) : c \in lined}

\* models.ReviewComment(body=..., path=..., position=...)
ReviewComment(body, path, position) ==
  [body |-> body, path |-> path, position |-> position]

\* comments_by_location[key].append(comment), on a defaultdict(list)
DictAppend(d, k, v) ==
  IF k \in DictKeys(d)
  THEN DictSet(d, k, Append(DictGet(d, k), v))
  ELSE DictSet(d, k, <<v>>)

\* the body of a location's comment: the single-issue text, or the header
\* with the count and the issues numbered from 1 in list order
ComposeBody(comments) ==
  [multiple |-> Len(comments) # 1,
   issues |-> [i \in DOMAIN comments |-> Body(comments[i])]]

InitAggregate == InitLocals /\ pc = "aggregate"

\* `if mapped_comments:` is false: github_comments stays []
SkipAggregation ==
  /\ pc = "aggregate"
  /\ pc' = "composed"
  /\ UNCHANGED << scan_vars, resolve_vars, aggregate_vars, session_vars >>

\* one iteration of `for comment in mapped_comments`; comment['actual_line']
\* raises KeyError when the key is missing
GroupComment(comment) ==
  /\ pc \in {"aggregate", "group"}
  /\ mapped_comments' = Append(mapped_comments, comment)
  /\ IF "actual_line" \in DOMAIN comment
     THEN /\ pc' = "group"
          /\ comments_by_location' =
               DictAppend(comments_by_location,
                          << comment.file_path, comment.actual_line >>, comment)
     ELSE /\ pc' = "failed"
          /\ UNCHANGED comments_by_location
  /\ UNCHANGED << scan_vars, line_comments, matched, github_comments, cursor,
                  session_vars >>

GroupNext ==
  /\ Len(mapped_comments) < MaxAggregated
  /\ \E comment \in ResolvedComments(Len(mapped_comments) + 1) :
       GroupComment(comment)

\* the last resolved annotation was grouped
EndGroup ==
  /\ pc = "group"
  /\ pc' = "compose"
  /\ UNCHANGED << scan_vars, resolve_vars, aggregate_vars, session_vars >>

\* one iteration of `for (file_path, line_num), comments in
\* comments_by_location.items()`; the body reads severity, issue, impact, fix
ComposeNext ==
  /\ pc = "compose"
  /\ LET entry == comments_by_location[cursor + 1]
         comments == entry.val
     IN  IF \A i \in DOMAIN comments : BodyKeys \subseteq DOMAIN comments[i]
         THEN /\ github_comments' =
                   Append(github_comments,
                          ReviewComment(ComposeBody(comments), entry.key[1],
                                        comments[1].diff_position))
              /\ cursor' = cursor + 1
              /\ pc' = IF cursor + 1 = Len(comments_by_location)
                       THEN "composed" ELSE "compose"
         ELSE /\ pc' = "failed"
              /\ UNCHANGED << github_comments, cursor >>
  /\ UNCHANGED << scan_vars, resolve_vars, comments_by_location, session_vars >>

NextAggregate ==
  \/ SkipAggregation
  \/ GroupNext
  \/ EndGroup
  \/ ComposeNext

SpecAggregate == InitAggregate /\ [][NextAggregate]_vars

(***************************************************************************)
(* main.github_webhook: the handler from the request to its response.  The *)
(* whole body is one `try`; its `except` clauses choose the status of an   *)
(* exception raised in it.                                                 *)
(***************************************************************************)
\* the webhook secret of the deployment ("" when none is configured) and the
\* keys a sender may sign a body with
WebhookSecrets == {"", "k1"}

SigningKeys == {"k1", "k2"}

\* the kinds of request body: not JSON, the JSON value null, an event object
\* without `pull_request`, and pull_request events by their action
Payloads == {"not_json", "null", "not_pr", "closed", "opened", "synchronize"}

\* hmac.new(key, msg, hashlib.sha256).hexdigest(): a digest that tells every
\* (key, message) pair from every other
hexdigest(key, msg) == << key, msg >>

\* request.headers.get("X-Hub-Signature-256", ""): a missing header is ""
EmptyHeader == [prefix |-> "", digest |-> <<>>, ascii |-> TRUE]

\* a header holding a character outside ASCII
NonAsciiHeader == [prefix |-> "", digest |-> <<>>, ascii |-> FALSE]

SignatureHeaders ==
  {EmptyHeader, NonAsciiHeader}
    \cup {[prefix |-> prefix, digest |-> hexdigest(key, body), ascii |-> TRUE] :
            prefix \in {"sha256=", "sha1="}, key \in SigningKeys, body \in Payloads}

\* the requests: the webhook secret configured, the signature header and the
\* kind of the body
Requests ==
  [secret : WebhookSecrets, header : SignatureHeaders, payload : Payloads]

\* expected_signature = "sha256=" + hmac.new(...).hexdigest()
expected_signature(request) ==
  [prefix |-> "sha256=", digest |-> hexdigest(request.secret, request.payload),
   ascii |-> TRUE]

\* a check that compares the digests and not the `sha256=` prefix
verify_digest_only(request) ==
  request.secret = "" \/ request.header.digest = expected_signature(request).digest

\* github_service.verify_webhook_signature
verify_webhook_signature(request) ==
  request.secret = "" \/ request.header = expected_signature(request)

\* hmac.compare_digest(expected_signature, signature_header) raises TypeError
\* on a str with a non-ASCII character; it is reached with a secret only
CompareDigestRaises(request) ==
  request.secret # "" /\ ~request.header.ascii

\* a filter that lets the `closed` action through as well
ReviewedAndClosedActions == {"opened", "synchronize", "closed"}

\* `if pr_info["action"] not in ["opened", "synchronize"]`
ReviewedActions == {"opened", "synchronize"}

\* the status chosen by `except json.JSONDecodeError` / `except Exception`
\* (HTTPException is an Exception)
ExceptClause(exception) ==
  IF exception = "JSONDecodeError" THEN 400 ELSE 500

\* the detail of the HTTPException the `except` clauses raise
ExceptDetail(exception) ==
  IF exception = "JSONDecodeError"
  THEN "Invalid JSON payload"
  ELSE "Webhook processing failed"

\* the handler answers with a status and a message
Respond(status, message) ==
  webhook' = [webhook EXCEPT !.pc = "responded", !.status = Some(status),
                             !.message = Some(message),
                             !.responses = Append(@, status)]

\* an exception raised inside the `try`
Raise(exception) == Respond(ExceptClause(exception), ExceptDetail(exception))

webhook_frame ==
  << scan_vars, pc, resolve_vars, aggregate_vars, invocations, frames, first_call,
     manual, posting >>

InitWebhook == InitLocals /\ pc = "handle"

ReceiveRequest ==
  /\ webhook.pc \in {"idle", "responded"}
  /\ Len(webhook.responses) < MaxRequests
  /\ \E request \in Requests :
       webhook' = [IdleWebhook EXCEPT !.pc = "verify", !.request = Some(request),
                                      !.responses = webhook.responses]
  /\ UNCHANGED webhook_frame

\* `if not verify_webhook_signature(...): raise HTTPException(status_code=401)`
VerifySignature ==
  /\ webhook.pc = "verify"
  /\ IF CompareDigestRaises(Val(webhook.request))
     THEN Raise("TypeError")
     ELSE IF verify_webhook_signature(Val(webhook.request))
          THEN webhook' = [webhook EXCEPT !.pc = "parse", !.verified = TRUE]
          ELSE Raise("HTTPException")
  /\ UNCHANGED webhook_frame

\* webhook_data = json.loads(payload_body.decode())
ParsePayload ==
  /\ webhook.pc = "parse"
  /\ IF Val(webhook.request).payload = "not_json"
     THEN webhook' = [webhook EXCEPT !.pc = "responded", !.parsed = TRUE,
                        !.status = Some(ExceptClause("JSONDecodeError")),
                        !.message = Some(ExceptDetail("JSONDecodeError")),
                        !.responses = Append(@, ExceptClause("JSONDecodeError"))]
     ELSE webhook' = [webhook EXCEPT !.pc = "pr", !.parsed = TRUE]
  /\ UNCHANGED webhook_frame

\* parse_webhook_pr, and the test of the action; `"pull_request" not in None`
\* raises TypeError
ParsePR ==
  /\ webhook.pc = "pr"
  /\ LET payload == Val(webhook.request).payload
     IN  CASE payload = "null" -> Raise("TypeError")
           [] payload = "not_pr" -> Respond(200, "Not a pull request event")
           [] payload \in ReviewedActions -> webhook' = [webhook EXCEPT !.pc = "diff"]
           [] OTHER -> Respond(200, "Ignored action")
  /\ UNCHANGED webhook_frame

\* diff_content = github_service.get_pr_diff(...): None, "" or a diff text
GetDiff ==
  /\ webhook.pc = "diff"
  /\ \E diff_content \in {None, Some(<<>>), Some(<<"diff --git a/f b/f">>)} :
       IF Truthy(diff_content)
       THEN webhook' = [webhook EXCEPT !.pc = "review", !.diff_fetched = TRUE,
                          !.diff_content = diff_content,
                          !.calls = Append(@, "get_pr_diff")]
       ELSE webhook' = [webhook EXCEPT !.pc = "responded", !.diff_fetched = TRUE,
                          !.diff_content = diff_content,
                          !.calls = Append(@, "get_pr_diff"),
                          !.status = Some(200),
                          !.message = Some("Could not fetch PR diff"),
                          !.responses = Append(@, 200)]
  /\ UNCHANGED webhook_frame

\* the review, the mapping and the aggregation: with any mapped annotation
\* comment['actual_line'] raises KeyError
ReviewDiff ==
  /\ webhook.pc = "review"
  /\ \E mapped \in 0..MaxComments :
       IF mapped > 0
       THEN webhook' = [webhook EXCEPT !.pc = "responded", !.mapped = Some(mapped),
                          !.calls = @ \o <<"review_pr_diff",
                                           "parse_diff_for_inline_comments">>,
                          !.status = Some(ExceptClause("KeyError")),
                          !.message = Some(ExceptDetail("KeyError")),
                          !.responses = Append(@, ExceptClause("KeyError"))]
       ELSE webhook' = [webhook EXCEPT !.pc = "post", !.mapped = Some(mapped),
                          !.calls = @ \o <<"review_pr_diff",
                                           "parse_diff_for_inline_comments">>]
  /\ UNCHANGED webhook_frame

\* success = github_service.post_pr_review(...): both outcomes are answered
\* with 200
PostReview ==
  /\ webhook.pc = "post"
  /\ \E success \in BOOLEAN :
       webhook' = [webhook EXCEPT !.pc = "responded", !.posted = TRUE,
                     !.calls = Append(@, "post_pr_review"),
                     !.status = Some(200),
                     !.message = Some(IF success THEN "Review posted successfully"
                                                 ELSE "Failed to post review"),
                     !.responses = Append(@, 200)]
  /\ UNCHANGED webhook_frame

NextWebhook ==
  \/ ReceiveRequest
  \/ VerifySignature
  \/ ParsePayload
  \/ ParsePR
  \/ GetDiff
  \/ ReviewDiff
  \/ PostReview

SpecWebhook == InitWebhook /\ [][NextWebhook]_vars

(***************************************************************************)
(* main.review_pr_manually: the handler from the request to its response.  *)
(* The whole body is one `try`; `except ValueError` answers 400 and        *)
(* `except Exception` answers 500.                                         *)
(***************************************************************************)
\* the values of request.pr_url
PrUrls ==
  { "https://github.com/o/r/pull", "https://github.com/o/r/pull/12",
    "https://github.com/o/r/pull/0", "https://github.com/o/r/pull/x",
    "https://github.com/o/r/tree/b", "https://github.com/o/r/compare/b",
    "o/r/pull/12" }

\* request.pr_url.replace("https://github.com/", ""): the URLs of the model
\* hold the host at their start or not at all
RemoveHost(url) ==
  IF startswith(url, Chars("https://github.com/"))
  THEN SubSeq(url, Len(Chars("https://github.com/")) + 1, Len(url))
  ELSE url

\* int(s) for an unsigned decimal numeral; None stands for ValueError
int(s) ==
  IF s # <<>> /\ \A j \in DOMAIN s : IsDigit(s[j])
  THEN Some(DigitRun(s, 1, 0))
  ELSE None

ManualRequests == [pr_url : PrUrls, diff_content : {None, Some(<<"+x">>)}]

\* the status chosen by `except ValueError` / `except Exception`
\* (HTTPException is an Exception)
ManualExceptClause(exception) ==
  IF exception = "ValueError" THEN 400 ELSE 500

\* the handler answers with a status; `raised` is the status of the
\* HTTPException raised inside the `try`, if one was
ManualRespond(status, raised) ==
  manual' = [manual EXCEPT !.pc = "responded", !.status = Some(status),
                           !.raised = raised,
                           !.responses = Append(@, status)]

\* `raise HTTPException(status_code=status_code)` inside the `try`
ManualRaiseHTTP(status_code) ==
  ManualRespond(ManualExceptClause("HTTPException"), Some(status_code))

manual_frame ==
  << scan_vars, pc, resolve_vars, aggregate_vars, invocations, frames, first_call,
     webhook, posting >>

InitManual == InitLocals /\ pc = "manual"

ReceiveManual ==
  /\ manual.pc \in {"idle", "responded"}
  /\ Len(manual.responses) < MaxRequests
  /\ \E request \in ManualRequests :
       manual' = [IdleManual EXCEPT !.pc = "parse", !.request = Some(request),
                                    !.responses = manual.responses]
  /\ UNCHANGED manual_frame

\* url_parts, url_type and pr_number
ParseUrl ==
  /\ manual.pc = "parse"
  /\ LET url_parts == split(RemoveHost(Chars(Val(manual.request).pr_url)), "/")
     IN  IF Len(url_parts) < 4
         THEN ManualRaiseHTTP(400)
         ELSE IF url_parts[3] = Chars("pull")
              THEN IF int(url_parts[4]) = None
                   THEN ManualRespond(ManualExceptClause("ValueError"), None)
                   ELSE manual' = [manual EXCEPT !.pc = "content",
                                     !.url_parts = url_parts,
                                     !.url_type = Some("pull"),
                                     !.pr_number = int(url_parts[4])]
              ELSE IF url_parts[3] = Chars("tree")
                   THEN manual' = [manual EXCEPT !.pc = "content",
                                     !.url_parts = url_parts,
                                     !.url_type = Some("tree")]
                   ELSE ManualRaiseHTTP(400)
  /\ UNCHANGED manual_frame

\* content_to_review: the diff of the request, the diff of the PR, or the files
\* of the branch (there the 404 is raised inside an inner `try` whose
\* `except Exception` turns it into a 500)
GetContent ==
  /\ manual.pc = "content"
  /\ IF Truthy(Val(manual.request).diff_content)
     THEN manual' = [manual EXCEPT !.pc = "review"]
     ELSE IF manual.url_type = Some("pull") /\ manual.pr_number # Some(0)
          THEN \E fetched \in {None, Some(<<>>), Some(<<"+x">>)} :
                 IF Truthy(fetched)
                 THEN manual' = [manual EXCEPT !.pc = "review",
                                   !.calls = Append(@, "get_pr_diff")]
                 ELSE manual' = [manual EXCEPT !.pc = "responded",
                                   !.calls = Append(@, "get_pr_diff"),
                                   !.status = Some(ManualExceptClause("HTTPException")),
                                   !.raised = Some(404),
                                   !.responses =
                                     Append(@, ManualExceptClause("HTTPException"))]
          ELSE IF manual.url_type = Some("tree")
               THEN \E files \in BOOLEAN :
                      IF files
                      THEN manual' = [manual EXCEPT !.pc = "review"]
                      ELSE ManualRaiseHTTP(500)
               ELSE ManualRaiseHTTP(400)
  /\ UNCHANGED manual_frame

\* review_service.review_pr_diff and the formatting of its line comments
\* (KeyError on an annotation without one of the keys), or review_code
Review ==
  /\ manual.pc = "review"
  /\ IF manual.url_type = Some("pull") /\ manual.pr_number # Some(0)
     THEN \E well_formed \in BOOLEAN :
            manual' = [manual EXCEPT !.pc = "responded",
                         !.calls = Append(@, "review_pr_diff"),
                         !.status = Some(IF well_formed
                                         THEN 200
                                         ELSE ManualExceptClause("KeyError")),
                         !.responses = Append(@, IF well_formed
                                                 THEN 200
                                                 ELSE ManualExceptClause("KeyError"))]
     ELSE manual' = [manual EXCEPT !.pc = "responded",
                       !.calls = Append(@, "review_code"),
                       !.status = Some(200),
                       !.responses = Append(@, 200)]
  /\ UNCHANGED manual_frame

NextManual ==
  \/ ReceiveManual
  \/ ParseUrl
  \/ GetContent
  \/ Review

SpecManual == InitManual /\ [][NextManual]_vars

(***************************************************************************)
(* git_service.post_individual_pr_comments: one request per comment of the *)
(* list, in list order.                                                    *)
(***************************************************************************)
\* the comments a list is made of, each a dict with body, path and line
CommentIds == {"a", "b"}

CommentLists == UNION {[1..n -> CommentIds] : n \in 0..MaxPosted}

\* requests.post(...): the status of the response, or RequestException
PostOutcomes == {"201", "422", "RequestException"}

\* a return value that is True as soon as one comment was posted
SomePosted(success_count, comments) == success_count > 0

\* `return success_count == len(comments)`
AllPosted(success_count, comments) == success_count = Len(comments)

posting_frame ==
  << scan_vars, pc, resolve_vars, aggregate_vars, invocations, frames, first_call,
     webhook, manual >>

InitPosting == InitLocals /\ pc = "posting"

\* the call; `if not comments: return True`
CallPost ==
  /\ posting.pc = "idle"
  /\ \E comments \in CommentLists :
       IF comments = <<>>
       THEN posting' = [posting EXCEPT !.pc = "returned", !.comments = comments,
                                       !.result = Some(TRUE)]
       ELSE posting' = [posting EXCEPT !.pc = "loop", !.comments = comments]
  /\ UNCHANGED posting_frame

\* one iteration of `for i, comment in enumerate(comments, 1)`
PostComment ==
  /\ posting.pc = "loop"
  /\ posting.i < Len(posting.comments)
  /\ \E outcome \in PostOutcomes :
       posting' = [posting EXCEPT
                     !.i = @ + 1,
                     !.requests = Append(@, [comment |-> posting.comments[posting.i + 1],
                                             outcome |-> outcome]),
                     !.success_count = IF outcome = "201" THEN @ + 1 ELSE @]
  /\ UNCHANGED posting_frame

\* the loop is over
ReturnPosted ==
  /\ posting.pc = "loop"
  /\ posting.i = Len(posting.comments)
  /\ posting' = [posting EXCEPT
                   !.pc = "returned",
                   !.result = Some(AllPosted(posting.success_count, posting.comments))]
  /\ UNCHANGED posting_frame

NextPosting ==
  \/ CallPost
  \/ PostComment
  \/ ReturnPosted

SpecPosting == InitPosting /\ [][NextPosting]_vars

(***************************************************************************)
(* Vocabulary of the claims: the line kinds of a unified diff text d.      *)
(***************************************************************************)
IsFileHeader(text) == startswith(Chars(text), Chars("diff --git "))

IsHunkHeader(text) == startswith(Chars(text), Chars("@@"))

Max(S) == CHOOSE x \in S : \A y \in S : y <= x

\* index of the file header whose section holds line i (0: no header above)
SectionStart(d, i) ==
  LET hs == {j \in 1..i : IsFileHeader(d[j])}
  IN  IF hs = {} THEN 0 ELSE Max(hs)

\* index of the last hunk header at or above line i (0: none)
LastHunkHeader(d, i) ==
  LET hs == {j \in 1..i : IsHunkHeader(d[j])}
  IN  IF hs = {} THEN 0 ELSE Max(hs)

\* line i is content of a hunk of a file section
InHunk(d, i) ==
  /\ ~IsFileHeader(d[i])
  /\ ~IsHunkHeader(d[i])
  /\ SectionStart(d, i) > 0
  /\ LastHunkHeader(d, i) > SectionStart(d, i)

\* line i sits between a file header and the first hunk header of its section
BeforeFirstHunk(d, i) ==
  /\ ~IsFileHeader(d[i])
  /\ ~IsHunkHeader(d[i])
  /\ SectionStart(d, i) > 0
  /\ LastHunkHeader(d, i) < SectionStart(d, i)

\* the kind of a hunk content line, by its first character
Kind(text) ==
  LET line == Chars(text)
  IN  IF startswith(line, Chars("+")) THEN "Added"
      ELSE IF startswith(line, Chars("-")) THEN "Deleted"
      ELSE IF startswith(line, Chars("\\")) THEN "NoNewlineMarker"
      ELSE "Context"

\* the step just taken read line Len(diff_lines') of the diff
ReadsLine == Len(diff_lines') = Len(diff_lines) + 1

(***************************************************************************)
(* C1. The position counter of parse_diff_for_inline_comments advances by  *)
(* exactly 1 on every Added, Deleted and Context line of a hunk, is left   *)
(* unchanged by a `@@` hunk header and goes back to 0 only at a            *)
(* `diff --git` header; the positions recorded within one file section are *)
(* strictly increasing in diff-line order.                                 *)
(***************************************************************************)
PositionsIncrease(d, m) ==
  \A k1, k2 \in DictKeys(m) :
    (k1 < k2 /\ SectionStart(d, k1) = SectionStart(d, k2))
      => DictGet(m, k1)[2] < DictGet(m, k2)[2]

C1_Step ==
  ReadsLine =>
    LET d == diff_lines'
        n == Len(d)
    IN  /\ (InHunk(d, n) /\ Kind(d[n]) \in {"Added", "Deleted", "Context"})
             => github_position' = github_position + 1
        /\ IsHunkHeader(d[n]) => github_position' = github_position
        /\ IsFileHeader(d[n]) => github_position' = 0
        /\ github_position' < github_position => IsFileHeader(d[n])
        /\ PositionsIncrease(d, diff_line_to_position')

C1_PositionCounterContinuous == [][C1_Step]_vars

(***************************************************************************)
(* C2. After the scan, the hunk lines that have an entry in                *)
(* diff_line_to_position are exactly the Added and Context lines: every    *)
(* hunk line that begins with `+`, or with anything but `+`, `-`, `\`      *)
(* (an empty line included), has an entry and no hunk line that begins     *)
(* with `-` has one.                                                       *)
(***************************************************************************)
C2_KeysAreAddedAndContextLines ==
  {i \in DictKeys(diff_line_to_position) : InHunk(diff_lines, i)}
    = {i \in DOMAIN diff_lines :
         InHunk(diff_lines, i) /\ Kind(diff_lines[i]) \in {"Added", "Context"}}

(***************************************************************************)
(* C8. In each new-file line tracker, within a hunk whose header carries   *)
(* +N and whose content lines all begin with `+`, `-` or a space, the      *)
(* counter stands at N plus the number of Added and Context lines read so  *)
(* far in the hunk, and every line number recorded for a line of the hunk  *)
(* is N plus the number of Added and Context lines above it in the hunk.   *)
(***************************************************************************)
\* the diff ends inside a hunk with a +N header and only +, -, space lines
InCleanHunk(d) ==
  LET h == LastHunkHeader(d, Len(d))
  IN  /\ h > 0
      /\ HunkNewStart(Chars(d[h])) # None
      /\ \A j \in (h + 1)..Len(d) :
           \/ startswith(Chars(d[j]), Chars("+"))
           \/ startswith(Chars(d[j]), Chars("-"))
           \/ startswith(Chars(d[j]), Chars(" "))

\* Added and Context lines among lines h+1..j of d
AddedOrContext(d, h, j) ==
  Cardinality({m \in (h + 1)..j : Kind(d[m]) \in {"Added", "Context"}})

\* the new-file line the claim gives to the state after the last line read
ExpectedNewLine(d) ==
  LET h == LastHunkHeader(d, Len(d))
  IN  Val(HunkNewStart(Chars(d[h]))) + AddedOrContext(d, h, Len(d))

C8_PositionMap ==
  InCleanHunk(diff_lines) =>
    patch_map.new_line = Some(ExpectedNewLine(diff_lines))

C8_DiffToSource ==
  InCleanHunk(diff_lines) =>
    LET h == LastHunkHeader(diff_lines, Len(diff_lines))
        N == Val(HunkNewStart(Chars(diff_lines[h])))
    IN  /\ source_map.current_source_line = Some(ExpectedNewLine(diff_lines))
        /\ \A j \in DictKeys(source_map.diff_to_source) :
             j > h => DictGet(source_map.diff_to_source, j)
                        = N + AddedOrContext(diff_lines, h, j - 1)

C8_AbsoluteLine ==
  (/\ InCleanHunk(diff_lines)
   /\ SectionStart(diff_lines, Len(diff_lines)) > 0
   /\ ~absolute_map.raised) =>
    LET h == LastHunkHeader(diff_lines, Len(diff_lines))
        N == Val(HunkNewStart(Chars(diff_lines[h])))
    IN  /\ absolute_map.current_absolute_line = Some(ExpectedNewLine(diff_lines))
        /\ \A j \in DictKeys(absolute_map.diff_to_absolute) :
             j > h => DictGet(absolute_map.diff_to_absolute, j).absolute_line
                        = N + AddedOrContext(diff_lines, h, j - 1)

C8_NewFileLineAdvancesOnAddedAndContext ==
  C8_PositionMap /\ C8_DiffToSource /\ C8_AbsoluteLine

(***************************************************************************)
(* C9. A `\ No newline at end of file` line that follows a content line of *)
(* a hunk moves no counter and adds no entry in any map builder.           *)
(***************************************************************************)
C9_Step ==
  (/\ ReadsLine
   /\ Kind(diff_lines'[Len(diff_lines')]) = "NoNewlineMarker"
   /\ diff_lines # <<>>
   /\ InCleanHunk(diff_lines)
   /\ ~IsHunkHeader(diff_lines[Len(diff_lines)]))
    => /\ github_position' = github_position
       /\ diff_line_to_position' = diff_line_to_position
       /\ patch_map' = patch_map
       /\ source_map' = source_map
       /\ absolute_map' = absolute_map

C9_NoNewlineMarkerMovesNoCounter == [][C9_Step]_vars

(***************************************************************************)
(* C10. In parse_diff_for_inline_comments the `--- a/X`, `+++ b/Y` and     *)
(* `index ...` lines between a `diff --git` header and the first `@@` of   *)
(* the file get no entry in diff_line_to_position and leave the position   *)
(* counter of the file at 0.                                               *)
(***************************************************************************)
FileMetadata == {"--- a/f", "+++ b/f", "index 1..2"}

C10_MetadataIsNotContent ==
  \A i \in DOMAIN diff_lines :
    (BeforeFirstHunk(diff_lines, i) /\ diff_lines[i] \in FileMetadata)
      => /\ i \notin DictKeys(diff_line_to_position)
         /\ (i = Len(diff_lines) => github_position = 0)

(***************************************************************************)
(* C3. Every annotation resolved by parse_diff_for_inline_comments whose   *)
(* `line` is a key of diff_line_to_position gets that key's own (file,     *)
(* position), without the fuzzy scan; every other resolved annotation gets *)
(* the (file, position) of a key at distance at most 3 from its `line`.    *)
(***************************************************************************)
Location(comment) == << comment.file_path, comment.diff_position >>

C3_ExactFirstThenWithinTolerance ==
  \A j \in DOMAIN mapped_comments :
    LET c == mapped_comments[j]
        m == matched[j]
    IN  /\ m.key \in DictKeys(diff_line_to_position)
        /\ Location(c) = DictGet(diff_line_to_position, m.key)
        /\ Abs(m.key - c.line) <= 3
        /\ c.line \in DictKeys(diff_line_to_position)
             => (m.key = c.line /\ ~m.fuzzy)

\* one annotation matched exactly and another by the fuzzy scan, 3 lines off
C3_Witness ==
  /\ pc = "returned"
  /\ \E j \in DOMAIN matched : ~matched[j].fuzzy
  /\ \E j \in DOMAIN matched :
       matched[j].fuzzy /\ Abs(matched[j].key - mapped_comments[j].line) = 3

(***************************************************************************)
(* C6. The list parse_diff_for_inline_comments returns is the input list   *)
(* without the annotations that have no mapped diff line within distance 3 *)
(* of their `line`, in input order; each element is its input annotation,  *)
(* unchanged, plus the file_path and diff_position of an existing map      *)
(* entry.  (Checked after every annotation, so a drop does not stop the    *)
(* later ones.)                                                            *)
(***************************************************************************)
Resolvable(comment) ==
  /\ "line" \in DOMAIN comment
  /\ \E k \in DictKeys(diff_line_to_position) : Abs(k - comment.line) <= 3

\* the input indices of the annotations that must be kept, in input order
RECURSIVE KeptIndices(_)
KeptIndices(n) ==
  IF n = 0 THEN <<>>
  ELSE IF Resolvable(line_comments[n])
       THEN Append(KeptIndices(n - 1), n)
       ELSE KeptIndices(n - 1)

C6_OutputIsOrderedSubsequence ==
  pc \in {"resolve", "returned"} =>
    LET kept == KeptIndices(Len(line_comments))
    IN  /\ Len(mapped_comments) = Len(kept)
        /\ \A j \in DOMAIN mapped_comments :
             /\ Without(mapped_comments[j], {"file_path", "diff_position"})
                  = line_comments[kept[j]]
             /\ \E k \in DictKeys(diff_line_to_position) :
                  Location(mapped_comments[j]) = DictGet(diff_line_to_position, k)

\* the first annotation was dropped and the second one resolved
C6_Witness ==
  /\ pc = "returned"
  /\ Len(line_comments) = 2
  /\ diff_line_to_position # <<>>
  /\ ~Resolvable(line_comments[1])
  /\ Len(mapped_comments) = 1
  /\ mapped_comments[1].issue = 2

(***************************************************************************)
(* C7. A malformed annotation (no `line`, or no severity/issue/impact/fix) *)
(* is skipped: the resolver raises nothing and returns the results of the  *)
(* other annotations of the list.                                          *)
(***************************************************************************)
WellFormed(comment) == {"line"} \cup BodyKeys \subseteq DOMAIN comment

C7_MalformedAnnotationIsSkipped ==
  /\ pc # "raised"
  /\ pc = "returned" /\ diff_lines # <<>> =>
       LET kept == KeptIndices(Len(line_comments))
       IN  \A i \in DOMAIN line_comments :
             (WellFormed(line_comments[i]) /\ Resolvable(line_comments[i]))
               => \E j \in DOMAIN mapped_comments :
                    mapped_comments[j].issue = line_comments[i].issue

(***************************************************************************)
(* C4. No two ReviewComment objects of the emitted github_comments list    *)
(* have the same (path, position) pair.                                    *)
(***************************************************************************)
C4_NoTwoCommentsShareALocation ==
  pc = "composed" =>
    \A i, j \in DOMAIN github_comments :
      i # j => << github_comments[i].path, github_comments[i].position >>
                 # << github_comments[j].path, github_comments[j].position >>

(***************************************************************************)
(* C5. The aggregation of well-formed resolved annotations ends with one   *)
(* comment per (file_path, diff_position), in the order in which the       *)
(* locations were first seen; each body lists the annotations of its       *)
(* location in their original order (numbered from 1 when there are two or *)
(* more, the single-issue body when there is one).                         *)
(***************************************************************************)
\* the locations of the first n resolved annotations, in first-seen order
RECURSIVE FirstSeen(_)
FirstSeen(n) ==
  IF n = 0 THEN <<>>
  ELSE LET before == FirstSeen(n - 1)
           here == Location(mapped_comments[n])
       IN  IF \E j \in DOMAIN before : before[j] = here
           THEN before
           ELSE Append(before, here)

\* the resolved annotations of one location, in list order
AtLocation(here) ==
  SelectSeq(mapped_comments, LAMBDA c : Location(c) = here)

C5_OneCommentPerLocationInOrder ==
  (/\ pc \in {"composed", "failed"}
   /\ \A i \in DOMAIN mapped_comments : BodyKeys \subseteq DOMAIN mapped_comments[i])
    => LET seen == FirstSeen(Len(mapped_comments))
       IN  /\ pc = "composed"
           /\ Len(github_comments) = Len(seen)
           /\ \A j \in DOMAIN seen :
                LET group == AtLocation(seen[j])
                IN  github_comments[j] =
                      [body |-> [multiple |-> Len(group) >= 2,
                                 issues |-> [i \in DOMAIN group |->
                                               << group[i].severity, group[i].issue,
                                                  group[i].impact, group[i].fix >>]],
                       path |-> seen[j][1],
                       position |-> seen[j][2]]

(***************************************************************************)
(* C11. For a single-file diff in standard form, the map of                *)
(* parse_diff_for_inline_comments has one entry per Added and Context line *)
(* of the hunk and no other entry, the first content line after the hunk   *)
(* header has position 0, and for the hunk of 2 context, 2 added and 1     *)
(* context line the map has exactly 5 entries with positions 0,1,2,3,4 in  *)
(* diff order.                                                             *)
(***************************************************************************)
\* the hunk of scenario 1
ScenarioHunk == << " x", " x", "+x", "+x", " x" >>

C11_StandardDiffPositions ==
  Len(diff_lines) > Len(StandardHeader) =>
    LET first == Len(StandardHeader) + 1
        content == {i \in first..Len(diff_lines) :
                      Kind(diff_lines[i]) \in {"Added", "Context"}}
    IN  /\ Cardinality(DictKeys(diff_line_to_position)) = Cardinality(content)
        /\ first \in content
             => /\ first \in DictKeys(diff_line_to_position)
                /\ DictGet(diff_line_to_position, first)[2] = 0
        /\ diff_lines = StandardHeader \o ScenarioHunk
             => /\ Len(diff_line_to_position) = 5
                /\ \A k \in 0..4 :
                     DictGet(diff_line_to_position, first + k) = << <<"f">>, k >>

(***************************************************************************)
(* C12. A file section of the diff in which no `@@` line occurs has no     *)
(* entry in diff_line_to_position (so no annotation can be resolved onto   *)
(* one of its lines, which needs an entry).                                *)
(***************************************************************************)
Min(S) == CHOOSE x \in S : \A y \in S : x <= y

\* index of the last line of the file section that holds line i
SectionEnd(d, i) ==
  LET hs == {j \in (i + 1)..Len(d) : IsFileHeader(d[j])}
  IN  IF hs = {} THEN Len(d) ELSE Min(hs) - 1

\* the file section that holds line i has a hunk header
SectionHasHunk(d, i) ==
  \E j \in SectionStart(d, i)..SectionEnd(d, i) : j > 0 /\ IsHunkHeader(d[j])

C12_SectionWithoutHunkHasNoEntries ==
  \A i \in DictKeys(diff_line_to_position) : SectionHasHunk(diff_lines, i)

(***************************************************************************)
(* C13. In _build_position_map_from_patch the first content line of a      *)
(* patch gets position 1, and the first content line of a later hunk gets  *)
(* the position of the last content line of the hunk before it plus 1: a   *)
(* hunk header takes no position slot.                                     *)
(***************************************************************************)
\* line i of d is an Added or Context content line
Commentable(d, i) ==
  /\ ~IsFileHeader(d[i])
  /\ ~IsHunkHeader(d[i])
  /\ Kind(d[i]) \in {"Added", "Context"}

\* line i of d is a hunk header with a new-file start
ValidHunkHeader(d, i) ==
  IsHunkHeader(d[i]) /\ HunkNewStart(Chars(d[i])) # None

\* the largest position of a mapping: that of the last line recorded
LastPosition(mapping) == Max({mapping[j].val : j \in DOMAIN mapping})

C13_Step ==
  (/\ ReadsLine
   /\ ValidHunkHeader(diff_lines', 1)
   /\ Commentable(diff_lines', Len(diff_lines')))
    => LET d == diff_lines'
           n == Len(d)
       IN  /\ n = 2 => patch_map'.position = 1
           /\ (/\ n >= 4
               /\ ValidHunkHeader(d, n - 1)
               /\ Commentable(d, n - 2))
                => patch_map'.position = LastPosition(patch_map.mapping) + 1

C13_PatchPositionsContinuous == [][C13_Step]_vars

(***************************************************************************)
(* C14. An annotation whose `line` has no entry of its own is attached to  *)
(* the mapped diff line at the smallest distance from `line`, if that      *)
(* distance is at most 3, and among the lines at that distance to the one  *)
(* with the smallest diff line number; with no mapped line within 3 it is  *)
(* dropped.  The diff and the annotation determine the choice.             *)
(***************************************************************************)
\* the annotation of input index i is in the result
Kept(i) == \E j \in DOMAIN matched : matched[j].index = i

WellSectioned(d) ==
  \A i \in DOMAIN d : IsFileHeader(d[i]) \/ IsHunkHeader(d[i]) \/ InHunk(d, i)

\* line i is content of a hunk whose header has a new-file start
InValidHunk(d, i) ==
  InHunk(d, i) /\ ValidHunkHeader(d, LastHunkHeader(d, i))

\* content lines of valid hunks between the file header of line i and line i
ValidContentAbove(d, i) ==
  Cardinality({j \in (SectionStart(d, i) + 1)..(i - 1) : InValidHunk(d, j)})

C15_UnparsableHunkIsSkipped ==
  WellSectioned(diff_lines) =>
    /\ ~absolute_map.raised
    /\ \A i \in DictKeys(diff_line_to_position) :
         /\ InValidHunk(diff_lines, i)
         /\ DictGet(diff_line_to_position, i)[2] = ValidContentAbove(diff_lines, i)
    /\ \A i \in DictKeys(absolute_map.diff_to_absolute) :
         /\ InValidHunk(diff_lines, i)
         /\ LET h == LastHunkHeader(diff_lines, i)
            IN  DictGet(absolute_map.diff_to_absolute, i).absolute_line
                  = Val(HunkNewStart(Chars(diff_lines[h])))
                      + AddedOrContext(diff_lines, h, i - 1)

(***************************************************************************)
(* C16. Every entry of the maps of parse_diff_for_inline_comments and      *)
(* map_ai_comments_to_line_numbers carries a non-empty file path: the b/   *)
(* side path of the nearest `diff --git` header above the line, without    *)
(* the b/ prefix.  After a header that yields no such path, no entry       *)
(* carries the path of an earlier file.                                    *)
(***************************************************************************)
\* the text after the last " b/" of a file header line, or None
BSidePath(text) ==
  LET line == Chars(text)
      hits == {j \in 1..(Len(line) - 2) : SubSeq(line, j, j + 2) = Chars(" b/")}
  IN  IF hits = {} THEN None ELSE Some(SubSeq(line, Max(hits) + 3, Len(line)))

\* the b/ side paths of the file headers above line h
EarlierPaths(d, h) ==
  {Val(BSidePath(d[j])) :
     j \in {m \in 1..(h - 1) : IsFileHeader(d[m]) /\ BSidePath(d[m]) # None}}

\* `path` is a right file path for an entry of diff line i
PathOfSection(d, i, path) ==
  LET h == SectionStart(d, i)
  IN  /\ path # <<>>
      /\ h > 0
      /\ IF BSidePath(d[h]) # None
         THEN path = Val(BSidePath(d[h]))
         ELSE path \notin EarlierPaths(d, h)

C16_PathIsBSideOfNearestHeader ==
  /\ \A i \in DictKeys(diff_line_to_position) :
       PathOfSection(diff_lines, i, DictGet(diff_line_to_position, i)[1])
  /\ \A i \in DictKeys(absolute_map.diff_to_absolute) :
       PathOfSection(diff_lines, i,
                     DictGet(absolute_map.diff_to_absolute, i).file_path)

(***************************************************************************)
(* C17. map_ai_comments_to_line_numbers returns, in input order, one       *)
(* {path, line, body} record for every annotation whose `line` is the diff *)
(* line number of an Added line of a hunk, and nothing else: path is the   *)
(* file of the enclosing `diff --git` section, line is the new-file start  *)
(* of the hunk plus the number of Added and Context lines above it in the  *)
(* hunk.  (Stated for lists of well-formed annotations.)                   *)
(***************************************************************************)
\* the annotation is on an Added line of a hunk with a new-file start
OnAddedLine(d, comment) ==
  /\ comment.line \in DOMAIN d
  /\ InValidHunk(d, comment.line)
  /\ Kind(d[comment.line]) = "Added"

\* the record the claim gives to an annotation on an Added line
ExpectedRecord(d, comment) ==
  LET h == LastHunkHeader(d, comment.line)
  IN  [path |-> Val(BSidePath(d[SectionStart(d, comment.line)])),
       line |-> Val(HunkNewStart(Chars(d[h])))
                  + AddedOrContext(d, h, comment.line - 1),
       body |-> << comment.severity, comment.issue, comment.impact, comment.fix >>]

\* the records of the first n annotations
RECURSIVE ExpectedRecords(_)
ExpectedRecords(n) ==
  IF n = 0 THEN <<>>
  ELSE IF OnAddedLine(diff_lines, line_comments[n])
       THEN Append(ExpectedRecords(n - 1),
                   ExpectedRecord(diff_lines, line_comments[n]))
       ELSE ExpectedRecords(n - 1)

C17_OneRecordPerAddedLine ==
  (/\ pc = "returned"
   /\ \A i \in DOMAIN line_comments : WellFormed(line_comments[i]))
    => mapped_comments = ExpectedRecords(Len(line_comments))

(***************************************************************************)
(* C18. Two calls of the map builders on their own diffs, their per-line   *)
(* steps interleaved in any order, each hold and return what the call      *)
(* gives when it runs alone on its diff: no call sees the maps, the        *)
(* current file or the counters of the other.                              *)
(***************************************************************************)
\* the locals of a call that ran alone over the first n lines of d
RECURSIVE ScanAlone(_, _)
ScanAlone(d, n) ==
  IF n = 0 THEN NewFrame
  ELSE ScanFrame(ScanAlone(d, n - 1), n, Chars(d[n]))

C20_BadSignatureIsAnswered401 ==
  (/\ webhook.request # None
   /\ ~verify_webhook_signature(Val(webhook.request))
   /\ webhook.pc # "verify")
    => /\ webhook.pc = "responded"
       /\ webhook.status = Some(401)
       /\ ~webhook.parsed
       /\ ~webhook.diff_fetched
       /\ ~webhook.posted

(***************************************************************************)
(* Vocabulary of the handler claims: the calls the handler made so far.    *)
(***************************************************************************)
Count(calls, name) == Cardinality({i \in DOMAIN calls : calls[i] = name})

\* every call of `later` comes after a call of `earlier`
CalledBefore(calls, earlier, later) ==
  \A j \in DOMAIN calls :
    calls[j] = later => \E i \in 1..(j - 1) : calls[i] = earlier

IgnoreMessages == {"Not a pull request event", "Ignored action"}

PostMessages == {"Review posted successfully", "Failed to post review"}

C22_ReviewedDeliveryEndsWithOnePost ==
  (/\ webhook.request # None
   /\ webhook.pc = "responded"
   /\ webhook.verified
   /\ Val(webhook.request).payload \in {"opened", "synchronize"}
   /\ Truthy(webhook.diff_content))
    => /\ Count(webhook.calls, "post_pr_review") = 1
       /\ webhook.message # None
       /\ Val(webhook.message) \in PostMessages

(***************************************************************************)
(* C25. verify_webhook_signature returns True for every payload and header *)
(* when no secret is configured; with a secret it returns True if and only *)
(* if the header is `sha256=` followed by the HMAC-SHA256 of the payload   *)
(* under that secret, so the verdict is a function of secret, payload and  *)
(* header, and an empty or missing header is rejected.                     *)
(***************************************************************************)
C25_SignatureVerdict ==
  (webhook.request # None /\ webhook.pc # "verify") =>
    LET request == Val(webhook.request)
        signed == [prefix |-> "sha256=",
                   digest |-> hexdigest(request.secret, request.payload),
                   ascii |-> TRUE]
    IN  /\ request.secret = "" => webhook.verified
        /\ request.secret # "" => (webhook.verified <=> request.header = signed)
        /\ (request.secret # "" /\ request.header = EmptyHeader)
             => ~webhook.verified

\* with a secret configured, a signed request was accepted after another
\* request had been answered
C25_Witness ==
  /\ webhook.request # None
  /\ Val(webhook.request).secret # ""
  /\ webhook.verified
  /\ webhook.pc = "parse"
  /\ webhook.responses # <<>>

(***************************************************************************)
(* C23. In review_pr_manually the client errors reach the caller with the  *)
(* status they are raised with: a URL with fewer than 4 path parts or a    *)
(* type other than pull/tree is answered 400, a non-numeric PR number 400, *)
(* a PR whose diff cannot be fetched 404; none of them is answered 500,    *)
(* and review_service is not called for any of them.                       *)
(***************************************************************************)
C23_ClientErrorsKeepTheirStatus ==
  (manual.request # None /\ manual.pc = "responded") =>
    LET parts == split(RemoveHost(Chars(Val(manual.request).pr_url)), "/")
        reviewed == \E j \in DOMAIN manual.calls :
                      manual.calls[j] \in {"review_pr_diff", "review_code"}
        bad_url == Len(parts) < 4 \/ parts[3] \notin {Chars("pull"), Chars("tree")}
        bad_number == /\ Len(parts) >= 4
                      /\ parts[3] = Chars("pull")
                      /\ \E j \in DOMAIN parts[4] : ~IsDigit(parts[4][j])
        no_diff == /\ manual.calls # <<>>
                   /\ manual.calls[Len(manual.calls)] = "get_pr_diff"
    IN  /\ bad_url => manual.status = Some(400) /\ ~reviewed
        /\ bad_number => manual.status = Some(400) /\ ~reviewed
        /\ no_diff => manual.status = Some(404) /\ ~reviewed

(***************************************************************************)
(* C24. post_individual_pr_comments attempts every comment of the list     *)
(* exactly once, in list order, also after a comment that failed (status   *)
(* other than 201, or RequestException), and returns True if and only if   *)
(* every attempt got status 201; for an empty list it returns True and     *)
(* makes no request.                                                       *)
(***************************************************************************)
C24_EveryCommentAttemptedOnceInOrder ==
  /\ Len(posting.requests) <= Len(posting.comments)
  /\ \A k \in DOMAIN posting.requests :
       posting.requests[k].comment = posting.comments[k]
  /\ posting.pc = "returned"
       => /\ Len(posting.requests) = Len(posting.comments)
          /\ posting.result # None
          /\ Val(posting.result)
               <=> \A k \in DOMAIN posting.requests :
                     posting.requests[k].outcome = "201"

\* the first comment failed and the next one was posted all the same
C24_Witness ==
  /\ posting.pc = "returned"
  /\ Len(posting.requests) >= 2
  /\ posting.requests[1].outcome # "201"
  /\ posting.requests[2].outcome = "201"
  /\ posting.result = Some(FALSE)

(***************************************************************************)
(* C27. An annotation resolved by the fuzzy fallback is attached to a line *)
(* of the file section that holds the diff line its `line` points at: the  *)
(* nearest-line search never crosses a `diff --git` boundary.  Stated for  *)
(* diff texts that name every file once.                                   *)
(***************************************************************************)
EachFileOnce(d) ==
  \A i, j \in DOMAIN d :
    (IsFileHeader(d[i]) /\ IsFileHeader(d[j]) /\ i # j) => d[i] # d[j]

C27_FuzzyMatchStaysInItsFileSection ==
  EachFileOnce(diff_lines) =>
    \A j \in DOMAIN matched :
      LET line == line_comments[matched[j].index].line
      IN  (matched[j].fuzzy /\ line \in DOMAIN diff_lines)
            => SectionStart(diff_lines, matched[j].key)
                 = SectionStart(diff_lines, line)

(***************************************************************************)
(* C28. The map built by parse_diff_for_inline_comments is injective on    *)
(* locations: no two distinct diff line numbers are mapped to the same     *)
(* (file_path, position) pair.  Stated for diff texts that name every file *)
(* once.                                                                   *)
(***************************************************************************)
C28_MapIsInjectiveOnLocations ==
  EachFileOnce(diff_lines) =>
    \A i, j \in DOMAIN diff_line_to_position :
      diff_line_to_position[i].key # diff_line_to_position[j].key
        => diff_line_to_position[i].val # diff_line_to_position[j].val

(***************************************************************************)
(* git_service.map_ai_diff_lines_to_github_positions.  Its argument        *)
(* pr_files is what fetch_pr_file_patches returns for the pull request of  *)
(* the full diff: per file with a patch, the file name and the position    *)
(* map of the patch, which is the file's section from its first hunk       *)
(* header on.                                                              *)
(***************************************************************************)
\* the diff texts of the calls
FullDiffLines ==
  {"diff --git a/f b/f", "diff --git a/g b/g", "@@ -1,2 +2,3 @@", "+x"}

\* file_data['patch'] of the file whose header is line h of d, or None when
\* the file has no patch
Patch(d, h) ==
  LET hunks == {j \in h..SectionEnd(d, h) : IsHunkHeader(d[j])}
  IN  IF hunks = {}
      THEN None
      ELSE Some(SubSeq(d, Min(hunks), SectionEnd(d, h)))

\* _build_position_map_from_patch(patch): the loop from line k of the patch
RECURSIVE BuildPositionMap(_, _, _)
BuildPositionMap(patch, k, st) ==
  IF k > Len(patch)
  THEN st.mapping
  ELSE BuildPositionMap(patch, k + 1, PositionMapLine(st, Chars(patch[k])))

\* the files of fetch_pr_file_patches, for the file headers of d from line
\* `from` on
RECURSIVE fetch_pr_file_patches(_, _)
fetch_pr_file_patches(d, from) ==
  LET hs == {h \in from..Len(d) : IsFileHeader(d[h])}
  IN  IF hs = {}
      THEN <<>>
      ELSE LET h == Min(hs)
               file == [filename |-> Val(BSidePath(d[h])),
                        position_map |-> BuildPositionMap(Val(Patch(d, h)), 1,
                                                          NewFrame.patch_map)]
           IN  (IF Patch(d, h) = None THEN <<>> ELSE <<file>>)
                 \o fetch_pr_file_patches(d, h + 1)

\* the first file of pr_files whose position map holds source_line, or None
TargetFile(pr_files, source_line) ==
  LET hits == {k \in DOMAIN pr_files :
                 source_line \in DictKeys(pr_files[k].position_map)}
  IN  IF hits = {} THEN None ELSE Some(pr_files[Min(hits)])

\* _build_diff_to_source_mapping(full_diff) has read the whole diff
PositionsEndScan ==
  /\ pc = "scan"
  /\ pc' = "positions"
  /\ UNCHANGED << scan_vars, resolve_vars, aggregate_vars, session_vars >>

\* one iteration of the loop over ai_comments; `if not source_line` skips a
\* line that is not in diff_to_source, and source line 0
MapPosition(comment) ==
  /\ pc = "positions"
  /\ line_comments' = Append(line_comments, comment)
  /\ LET known == comment.line \in DictKeys(source_map.diff_to_source)
         source_line == DictGet(source_map.diff_to_source, comment.line)
         target_file == TargetFile(fetch_pr_file_patches(diff_lines, 1), source_line)
     IN  IF known /\ source_line # 0 /\ target_file # None
         THEN /\ mapped_comments' =
                   Append(mapped_comments,
                          [path |-> Val(target_file).filename,
                           position |-> DictGet(Val(target_file).position_map,
                                                source_line),
                           body |-> Body(comment)])
              /\ matched' = Append(matched, [index |-> Len(line_comments) + 1,
                                             key |-> comment.line,
                                             fuzzy |-> FALSE])
         ELSE UNCHANGED << mapped_comments, matched >>
  /\ UNCHANGED << scan_vars, pc, aggregate_vars, session_vars >>

MapPositionNext ==
  /\ Len(line_comments) < MaxMapped
  /\ \E n \in 1..MaxFullDiffLen :
       MapPosition(Annotation(Len(line_comments) + 1, n))

PositionsReturn ==
  /\ pc = "positions"
  /\ pc' = "returned"
  /\ UNCHANGED << scan_vars, resolve_vars, aggregate_vars, session_vars >>

ReadFullDiff == Read(FullDiffLines, MaxFullDiffLen)

NextPositions ==
  \/ ReadFullDiff
  \/ PositionsEndScan
  \/ MapPositionNext
  \/ PositionsReturn

SpecPositions == Init /\ [][NextPositions]_vars

(***************************************************************************)
(* C26. For a multi-file diff, every comment returned by                   *)
(* map_ai_diff_lines_to_github_positions has as `path` the file whose      *)
(* section of the full diff holds the annotated diff line, and as          *)
(* `position` that file's position-map value for the line's new-file line  *)
(* number; it is never attributed to another file that covers the same     *)
(* new-file line number.  Stated for diff texts made of file sections,     *)
(* each a file header followed by hunks, that name every file once.        *)
(***************************************************************************)
FileSections(d) ==
  /\ d # <<>>
  /\ IsFileHeader(d[1])
  /\ WellSectioned(d)
  /\ EachFileOnce(d)

C26_CommentIsAttributedToItsOwnFile ==
  (pc \in {"positions", "returned"} /\ FileSections(diff_lines)) =>
    \A j \in DOMAIN mapped_comments :
      LET line == matched[j].key
          h == SectionStart(diff_lines, line)
          source_line == DictGet(source_map.diff_to_source, line)
      IN  /\ h > 0
          /\ mapped_comments[j].path = Val(BSidePath(diff_lines[h]))
          /\ Patch(diff_lines, h) # None
          /\ LET position_map == BuildPositionMap(Val(Patch(diff_lines, h)), 1,
                                                  NewFrame.patch_map)
             IN  /\ source_line \in DictKeys(position_map)
                 /\ mapped_comments[j].position = DictGet(position_map, source_line)

====
